---- MODULE Spec2Model ----
(***************************************************************************)
(* Model of ftrace-ramoops-fmt (src/src/main.rs): a tool that reads a      *)
(* pstore ftrace dump and a kallsyms listing and prints every traced call  *)
(* with its two addresses resolved to symbol+offset.                       *)
(*                                                                         *)
(* Text is modelled as sequences of one-character strings, so that the     *)
(* regular expressions, the numeric parsers and the formatters are         *)
(* computed character by character as the code computes them.              *)
(*                                                                         *)
(* TLC's integers are 32 bits wide, so the widths of u64 and u32 are       *)
(* scaled down to AddrBits and CpuBits bits.  The checked parsers keep     *)
(* their behaviour: a value that does not fit is an Err.                   *)
(***************************************************************************)
EXTENDS Integers, Sequences, FiniteSets, TLC

VARIABLES
    args,       \* the user arguments, std::env::args() without the program name
    traceFile,  \* the trace file: unopened, or what File::open gave
    symsFile,   \* the kallsyms file: unopened, or what File::open gave
    pc,         \* the position of main
    lineNo,     \* the next line the running lines() iterator yields
    calls,      \* Vec<FnCall> collected by ftrace()
    syms,       \* BTreeMap<u64, Symbol> collected by kallsyms(), in key order
    ci,         \* the next element `for call in calls` yields
    out,        \* the lines written to standard output
    panic,      \* "" while running, else the message of the panic that aborted
    tbl,        \* FindSpec: a BTreeMap<u64, Symbol> under construction
    needle,     \* FindSpec: the last address looked up
    found       \* FindSpec: what find_sym returned for it

vars == <<args, traceFile, symsFile, pc, lineNo, calls, syms, ci, out, panic,
          tbl, needle, found>>

mainVars == <<args, traceFile, symsFile, pc, lineNo, calls, syms, ci, out, panic>>

findVars == <<tbl, needle, found>>

----------------------------------------------------------------------------
(* Bounds *)

\* the modelled width of u64 (addresses, offsets)
AddrBits == 8

\* the modelled width of u32 (cpu)
CpuBits == 4

\* the longest kallsyms file, in lines
MaxSymLines == 2

\* the longest trace file, in lines
MaxTraceLines == 2

\* the largest table FindSpec builds
MaxTbl == 3

U64Max == 2 ^ AddrBits - 1

U32Max == 2 ^ CpuBits - 1

----------------------------------------------------------------------------
(* Option<T> and Result<T, E> *)

None == [tag |-> "None"]

Some(x) == [tag |-> "Some", val |-> x]

Err == [tag |-> "Err"]

Ok(x) == [tag |-> "Ok", val |-> x]

----------------------------------------------------------------------------
(* Character classes of the two regular expressions *)

DecDigits == <<"0", "1", "2", "3", "4", "5", "6", "7", "8", "9">>

LowerHexDigits == DecDigits \o <<"a", "b", "c", "d", "e", "f">>

UpperHexDigits == DecDigits \o <<"A", "B", "C", "D", "E", "F">>

Range(s) == {s[i] : i \in DOMAIN s}

Letters ==
    {"a", "b", "c", "d", "e", "f", "g", "h", "i", "j", "k", "l", "m",
     "n", "o", "p", "q", "r", "s", "t", "u", "v", "w", "x", "y", "z",
     "A", "B", "C", "D", "E", "F", "G", "H", "I", "J", "K", "L", "M",
     "N", "O", "P", "Q", "R", "S", "T", "U", "V", "W", "X", "Y", "Z"}

DigitChars == Range(DecDigits)

HexChars == Range(LowerHexDigits) \cup Range(UpperHexDigits)

SpaceChars == {" ", "\t"}

\* \d
IsDigit(c) == c \in DigitChars

\* [0-9a-fA-F]
IsHex(c) == c \in HexChars

\* \s
IsSpace(c) == c \in SpaceChars

\* \S
IsNonSpace(c) == ~IsSpace(c)

\* [:alpha:], the ASCII letters (kallsyms type letters are T, t, D, d, ...)
IsAlpha(c) == c \in Letters

InClass(c, class) ==
    CASE class = "\\d" -> IsDigit(c)
      [] class = "[0-9a-fA-F]" -> IsHex(c)
      [] class = "\\s" -> IsSpace(c)
      [] class = "\\S" -> IsNonSpace(c)

\* The end of a greedy repetition of a class started at p: the first position
\* at or after p that holds no character of the class (Len(s) + 1 at the end).
RunEnd(s, p, class) ==
    CHOOSE q \in p..(Len(s) + 1) :
        /\ q = Len(s) + 1 \/ ~InClass(s[q], class)
        /\ \A r \in p..(q - 1) : InClass(s[r], class)

----------------------------------------------------------------------------
(* Numeric parsing and formatting *)

\* char::to_digit(36), for the characters the expressions let through
DigitVal(c) ==
    IF \E i \in DOMAIN LowerHexDigits : LowerHexDigits[i] = c
    THEN (CHOOSE i \in DOMAIN LowerHexDigits : LowerHexDigits[i] = c) - 1
    ELSE (CHOOSE i \in DOMAIN UpperHexDigits : UpperHexDigits[i] = c) - 1

RECURSIVE Accumulate(_, _, _, _)
\* the checked multiply-and-add loop of from_str_radix; -1 is the Err
Accumulate(s, radix, max, acc) ==
    IF s = <<>> THEN acc
    ELSE LET d == DigitVal(Head(s))
         IN  IF d >= radix THEN -1
             ELSE IF acc * radix + d > max THEN -1
             ELSE Accumulate(Tail(s), radix, max, acc * radix + d)

\* uN::from_str_radix(s, radix), N given by max
FromStrRadix(s, radix, max) ==
    IF s = <<>> THEN Err
    ELSE LET v == Accumulate(s, radix, max, 0)
         IN  IF v < 0 THEN Err ELSE Ok(v)

RECURSIVE Digits(_, _)
Digits(n, radix) ==
    IF n < radix THEN <<LowerHexDigits[n + 1]>>
    ELSE Digits(n \div radix, radix) \o <<LowerHexDigits[(n % radix) + 1]>>

\* "{}" of an unsigned integer
FmtDec(n) == Digits(n, 10)

\* "{:x}" of an unsigned integer
FmtLowerHex(n) == Digits(n, 16)

----------------------------------------------------------------------------
(* Symbol, and its Display *)

Symbol(name, module) == [name |-> name, module |-> module]

SymbolFmt(sym) ==
    IF sym.module.tag = "Some"
    THEN sym.name \o <<"[">> \o sym.module.val \o <<"]">>
    ELSE sym.name

----------------------------------------------------------------------------
(* BTreeMap<u64, Symbol>: the entries in key order *)

EmptyMap == <<>>

\* a map that keeps the entry it already holds for a key
MapInsertKeepFirst(m, k, v) ==
    IF \E i \in DOMAIN m : m[i].addr = k THEN m
    ELSE SelectSeq(m, LAMBDA e : e.addr < k)
             \o <<[addr |-> k, sym |-> v]>>
             \o SelectSeq(m, LAMBDA e : e.addr > k)

\* BTreeMap::insert, as FromIterator applies it to each pair in turn
MapInsert(m, k, v) ==
    SelectSeq(m, LAMBDA e : e.addr < k)
        \o <<[addr |-> k, sym |-> v]>>
        \o SelectSeq(m, LAMBDA e : e.addr > k)

\* range(Bound::Unbounded, Bound::Excluded(&hi))
MapRangeExcluded(m, hi) == SelectSeq(m, LAMBDA e : e.addr < hi)

\* range(Bound::Unbounded, Bound::Included(&hi))
MapRange(m, hi) == SelectSeq(m, LAMBDA e : e.addr <= hi)

\* next_back() of a fresh double-ended range iterator
NextBack(r) == IF r = <<>> THEN None ELSE Some(r[Len(r)])

----------------------------------------------------------------------------
(* find_sym, SymOffset and its Display *)

\* u64 subtraction (wrapping, as in a release build)
SubU64(a, b) == (a - b) % (2 ^ AddrBits)

SymOffset(addr, offset, sym) == [addr |-> addr, offset |-> offset, sym |-> sym]

find_sym(a, m) ==
    LET e == NextBack(MapRange(m, a))
    IN  IF e.tag = "None" THEN None
        ELSE Some(SymOffset(e.val.addr, SubU64(a, e.val.addr), e.val.sym))

SymOffsetFmt(so) ==
    IF so.offset > 0
    THEN SymbolFmt(so.sym) \o <<"+", "0", "x">> \o FmtLowerHex(so.offset)
    ELSE SymbolFmt(so.sym)

----------------------------------------------------------------------------
(* kallsyms: the regular expression and the closure applied to each line *)

NoMatch == [tag |-> "NoMatch"]

Min(S) == CHOOSE x \in S : \A y \in S : x <= y

Max(S) == CHOOSE x \in S : \A y \in S : y <= x

RECURSIVE RunEnds(_, _, _)
\* the ends of consecutive greedy repetitions, one per class, started at p
RunEnds(s, p, classes) ==
    IF classes = <<>> THEN <<>>
    ELSE <<RunEnd(s, p, Head(classes))>>
             \o RunEnds(s, RunEnd(s, p, Head(classes)), Tail(classes))

\* the "]" that can end a module opened by the "[" at b, in the run of
\* non-blanks that ends before r
ModCloses(s, b, r) == {j \in (b + 2)..(r - 1) : s[j] = "]"}

ModGroupFrom(s, p, b) ==
    IF b > p /\ b <= Len(s) /\ s[b] = "[" /\ ModCloses(s, b, RunEnd(s, b + 1, "\\S")) # {}
    THEN [mod |-> Some(SubSeq(s, b + 1, Max(ModCloses(s, b, RunEnd(s, b + 1, "\\S"))) - 1)),
          end |-> Max(ModCloses(s, b, RunEnd(s, b + 1, "\\S"))) + 1]
    ELSE [mod |-> None, end |-> p]

\* (?:\s+\[(?P<mod>\S+)\])? tried at position p, right after the name: \S+
\* takes the whole run of non-blanks and gives characters back until a "]"
\* follows, so the module ends before the last "]" of the run.
ModGroupAt(s, p) == ModGroupFrom(s, p, RunEnd(s, p, "\\s"))

KallsymsMatchFrom(s, p, a, n, g) ==
    [tag |-> "Match", start |-> p, end |-> g.end,
     addr |-> SubSeq(s, p, a - 1),
     name |-> SubSeq(s, a + 3, n - 1),
     mod |-> g.mod]

KallsymsNameFrom(s, p, a, n) ==
    IF n > a + 3
    THEN KallsymsMatchFrom(s, p, a, n, ModGroupAt(s, n))
    ELSE NoMatch

KallsymsAddrFrom(s, p, a) ==
    IF /\ a > p
       /\ a + 3 <= Len(s)
       /\ IsSpace(s[a])
       /\ IsAlpha(s[a + 1])
       /\ IsSpace(s[a + 2])
    THEN KallsymsNameFrom(s, p, a, RunEnd(s, a + 3, "\\S"))
    ELSE NoMatch

\* the kallsyms expression tried at start position p: the address, one
\* blank, one letter, one blank, the name, and the module if there is one
KallsymsMatchAt(s, p) == KallsymsAddrFrom(s, p, RunEnd(s, p, "[0-9a-fA-F]"))

KallsymsHits(s) == {p \in 1..Len(s) : KallsymsMatchAt(s, p) # NoMatch}

KallsymsFirst(s, hits) ==
    IF hits = {} THEN NoMatch ELSE KallsymsMatchAt(s, Min(hits))

\* regex.captures(&line): the leftmost match; the expression is not anchored
KallsymsCaptures(s) == KallsymsFirst(s, KallsymsHits(s))

----------------------------------------------------------------------------
(* ftrace: the regular expression *)

FtraceClasses == <<"\\d", "\\s", "[0-9a-fA-F]", "\\s", "[0-9a-fA-F]", "\\s">>

\* e: the ends of the cpu, a blank run, to, a blank run, from, a blank run
FtraceMatchFrom(s, p, e) ==
    IF /\ e[1] > p
       /\ \A i \in 2..6 : e[i] > e[i - 1]
    THEN [tag |-> "Match", start |-> p, end |-> e[6],
          cpu |-> SubSeq(s, p, e[1] - 1),
          to |-> SubSeq(s, e[2], e[3] - 1),
          from |-> SubSeq(s, e[4], e[5] - 1)]
    ELSE NoMatch

\* the ftrace expression tried at start position p
FtraceMatchAt(s, p) == FtraceMatchFrom(s, p, RunEnds(s, p, FtraceClasses))

FtraceHits(s) == {p \in 1..Len(s) : FtraceMatchAt(s, p) # NoMatch}

FtraceFirst(s, hits) ==
    IF hits = {} THEN NoMatch ELSE FtraceMatchAt(s, Min(hits))

\* regex.captures(&line): the leftmost match; the expression is not anchored
FtraceCaptures(s) == FtraceFirst(s, FtraceHits(s))

FnCall(cpu, from, to) == [cpu |-> cpu, from |-> from, to |-> to]

\* what a closure applied to one line ends in: a value, or a panic
Value(x) == [tag |-> "Value", val |-> x]

Panic(msg) == [tag |-> "Panic", msg |-> msg]

MsgNoFtraceMatch == "Failed to match ftrace line"

MsgCpu == "Failed to parse CPU"

MsgAddr == "Failed to parse address"

MsgNoSymMatch == "Symbol line not matched"

KallsymsParsed(caps, addr) ==
    IF addr = Err THEN Panic(MsgAddr)
    ELSE Value([addr |-> addr.val, sym |-> Symbol(caps.name, caps.mod)])

KallsymsMatched(caps) ==
    IF caps = NoMatch THEN Panic(MsgNoSymMatch)
    ELSE KallsymsParsed(caps, FromStrRadix(caps.addr, 16, U64Max))

\* the closure kallsyms maps over the lines
KallsymsClosure(line) == KallsymsMatched(KallsymsCaptures(line))

\* the three fields parsed in the order cpu, from, to
FtraceParsed(cpu, from, to) ==
    IF cpu = Err THEN Panic(MsgCpu)
    ELSE IF from = Err THEN Panic(MsgAddr)
    ELSE IF to = Err THEN Panic(MsgAddr)
    ELSE Value(FnCall(cpu.val, from.val, to.val))

FtraceMatched(caps) ==
    IF caps = NoMatch THEN Panic(MsgNoFtraceMatch)
    ELSE FtraceParsed(FromStrRadix(caps.cpu, 10, U32Max),
                      FromStrRadix(caps.from, 16, U64Max),
                      FromStrRadix(caps.to, 16, U64Max))

\* the closure ftrace maps over the lines
FtraceClosure(line) == FtraceMatched(FtraceCaptures(line))

----------------------------------------------------------------------------
(* The inputs: argument vectors and file contents *)

KallsymsPath == <<"k">>

TracePath == <<"t">>

ArgVectors == {<<>>, <<KallsymsPath>>, <<KallsymsPath, TracePath>>}

\* kallsyms lines: plain, with a module, a second symbol at an address
\* already used, text before the address, no address at all, and an address
\* that does not fit
SymLinePool ==
    {<<"1", "0", " ", "T", " ", "a">>,
     <<"2", "0", " ", "t", " ", "b", "\t", "[", "m", "]">>,
     <<"1", "0", " ", "T", " ", "c">>,
     <<"x", "y", "z", "1", "2", " ", "T", " ", "f", "o", "o">>,
     <<"z", "z", " ", "n", "o", "t", "-", "h", "e", "x", " ", "n", "a", "m", "e">>,
     <<"f", "f", "f", " ", "T", " ", "g">>}

\* trace lines: as the kernel writes them (the symbolised call follows the
\* addresses), ended by a blank, without anything after the third field,
\* with a callee below every symbol, with text before the cpu, and with a
\* cpu, a callee and a caller that do not fit
TraceLinePool ==
    {<<"1", " ", "1", "8", " ", "2", "8", " ", " ", "a", " ", "<", "-", " ", "b">>,
     <<"0", " ", "1", "0", " ", "1", "0", " ">>,
     <<"2", " ", "1", "0", " ", "2", "0">>,
     <<"2", " ", "5", " ", "1", "8", " ">>,
     <<"a", "f", "1", "2", " ", "f", "f", " ", "e", "e", " ">>,
     <<"9", "9", " ", "1", "0", " ", "2", "0", " ">>,
     <<"1", " ", "f", "f", "f", " ", "1", "0", " ">>,
     <<"1", " ", "1", "0", " ", "f", "f", "f", " ">>}

SeqsUpTo(S, n) == UNION {[1..k -> S] : k \in 0..n}

\* a path main has not opened yet
Unopened == [state |-> "unopened", lines |-> <<>>]

\* File::open: Err for a missing file, else the lines BufRead::lines yields
NoFile == [state |-> "missing", lines |-> <<>>]

File(ls) == [state |-> "open", lines |-> ls]

SymFiles == {NoFile} \cup {File(ls) : ls \in SeqsUpTo(SymLinePool, MaxSymLines)}

TraceFiles == {NoFile} \cup {File(ls) : ls \in SeqsUpTo(TraceLinePool, MaxTraceLines)}

ReadingFtrace == <<"R", "e", "a", "d", "i", "n", "g", " ", "f", "t", "r", "a", "c", "e", " ", "f", "r", "o", "m", " ">>

ReadingKallsyms == <<"R", "e", "a", "d", "i", "n", "g", " ", "k", "a", "l", "l", "s", "y", "m", "s", " ", "f", "r", "o", "m", " ">>

----------------------------------------------------------------------------
(* The run of main *)

MsgNoTraceArg == "Second argument must be pstore ftrace output"

MsgNoSymsArg == "First argument must be kallsyms"

MsgOpen == "called Result::unwrap() on an Err value"

MsgUnwrapNone == "called Option::unwrap() on a None value"

\* Vec::insert(0, x)
VecPushFront(v, x) == <<x>> \o v

\* Vec::push, as FromIterator applies it to each item in turn
VecPush(v, x) == Append(v, x)

\* println!
Println(o, text) == Append(o, text)

Init ==
    /\ args \in ArgVectors
    /\ traceFile = Unopened
    /\ symsFile = Unopened
    /\ pc = "main"
    /\ lineNo = 1
    /\ calls = <<>>
    /\ syms = EmptyMap
    /\ ci = 1
    /\ out = <<>>
    /\ panic = ""
    /\ tbl = EmptyMap
    /\ needle = -1
    /\ found = None

\* main, up to the call of read_ftrace
MainStart ==
    /\ pc = "main" /\ panic = ""
    /\ \/ /\ Len(args) < 2
          /\ panic' = MsgNoTraceArg
          /\ pc' = pc
       \/ /\ Len(args) >= 2
          /\ pc' = "read_ftrace"
          /\ panic' = panic
    /\ UNCHANGED <<args, traceFile, symsFile, lineNo, calls, syms, ci, out, findVars>>

\* read_ftrace, up to the call of ftrace
ReadFtrace ==
    /\ pc = "read_ftrace" /\ panic = ""
    /\ out' = Println(out, ReadingFtrace \o args[2])
    /\ traceFile' \in TraceFiles
    /\ \/ /\ traceFile' = NoFile
          /\ panic' = MsgOpen
          /\ UNCHANGED <<pc, lineNo>>
       \/ /\ traceFile' # NoFile
          /\ pc' = "ftrace"
          /\ lineNo' = 1
          /\ panic' = panic
    /\ UNCHANGED <<args, symsFile, calls, syms, ci, findVars>>

\* what ftrace does with the closure's result r for the next line
FtraceTake(r) ==
    \/ /\ r.tag = "Panic"
       /\ panic' = r.msg
       /\ UNCHANGED <<lineNo, calls>>
    \/ /\ r.tag = "Value"
       /\ calls' = VecPush(calls, r.val)
       /\ lineNo' = lineNo + 1
       /\ panic' = panic

\* the closure of ftrace applied to the next line, and the push of collect
FtraceLine ==
    /\ pc = "ftrace" /\ panic = ""
    /\ lineNo <= Len(traceFile.lines)
    /\ FtraceTake(FtraceClosure(traceFile.lines[lineNo]))
    /\ UNCHANGED <<args, traceFile, symsFile, pc, syms, ci, out, findVars>>

\* ftrace returns the collected Vec; main takes its first argument
FtraceCollect ==
    /\ pc = "ftrace" /\ panic = ""
    /\ lineNo > Len(traceFile.lines)
    /\ IF Len(args) >= 1
       THEN pc' = "read_kallsyms" /\ panic' = panic
       ELSE pc' = pc /\ panic' = MsgNoSymsArg
    /\ UNCHANGED <<args, traceFile, symsFile, lineNo, calls, syms, ci, out, findVars>>

\* read_kallsyms, up to the call of kallsyms
ReadKallsyms ==
    /\ pc = "read_kallsyms" /\ panic = ""
    /\ out' = Println(out, ReadingKallsyms \o args[1])
    /\ symsFile' \in SymFiles
    /\ \/ /\ symsFile' = NoFile
          /\ panic' = MsgOpen
          /\ UNCHANGED <<pc, lineNo>>
       \/ /\ symsFile' # NoFile
          /\ pc' = "kallsyms"
          /\ lineNo' = 1
          /\ panic' = panic
    /\ UNCHANGED <<args, traceFile, calls, syms, ci, findVars>>

\* what kallsyms does with the closure's result r for the next line
KallsymsTake(r) ==
    \/ /\ r.tag = "Panic"
       /\ panic' = r.msg
       /\ UNCHANGED <<lineNo, syms>>
    \/ /\ r.tag = "Value"
       /\ syms' = MapInsert(syms, r.val.addr, r.val.sym)
       /\ lineNo' = lineNo + 1
       /\ panic' = panic

\* the closure of kallsyms applied to the next line, and the insert of collect
KallsymsLine ==
    /\ pc = "kallsyms" /\ panic = ""
    /\ lineNo <= Len(symsFile.lines)
    /\ KallsymsTake(KallsymsClosure(symsFile.lines[lineNo]))
    /\ UNCHANGED <<args, traceFile, symsFile, pc, calls, ci, out, findVars>>

\* kallsyms returns the collected map; main enters its loop
KallsymsCollect ==
    /\ pc = "kallsyms" /\ panic = ""
    /\ lineNo > Len(symsFile.lines)
    /\ pc' = "search"
    /\ ci' = 1
    /\ UNCHANGED <<args, traceFile, symsFile, lineNo, calls, syms, out, panic, findVars>>

Panicked == [tag |-> "Panicked"]

Printed(text) == [tag |-> "Printed", text |-> text]

\* a loop body that prints the raw address of an endpoint it cannot resolve
SearchBodyPlaceholder(call, m) ==
    LET from == find_sym(call.from, m)
        to == find_sym(call.to, m)
        fromText == IF from.tag = "None"
                    THEN <<"0", "x">> \o FmtLowerHex(call.from)
                    ELSE SymOffsetFmt(from.val)
        toText == IF to.tag = "None"
                  THEN <<"0", "x">> \o FmtLowerHex(call.to)
                  ELSE SymbolFmt(to.val.sym)
    IN  Printed(FmtDec(call.cpu) \o <<" ">> \o toText
                    \o <<" ", "<", "-", " ">> \o fromText)

\* the body of the loop of main for one call
SearchBody(call, m) ==
    LET from == find_sym(call.from, m)
        to == find_sym(call.to, m)
    IN  IF from.tag = "None" THEN Panicked
        ELSE IF to.tag = "None" THEN Panicked
        ELSE Printed(FmtDec(call.cpu) \o <<" ">> \o SymbolFmt(to.val.sym)
                        \o <<" ", "<", "-", " ">> \o SymOffsetFmt(from.val))

\* one iteration of `for call in calls`
SearchCall ==
    /\ pc = "search" /\ panic = ""
    /\ ci <= Len(calls)
    /\ LET r == SearchBody(calls[ci], syms)
       IN  \/ /\ r = Panicked
              /\ panic' = MsgUnwrapNone
              /\ UNCHANGED <<ci, out>>
           \/ /\ r # Panicked
              /\ out' = Println(out, r.text)
              /\ ci' = ci + 1
              /\ panic' = panic
    /\ UNCHANGED <<args, traceFile, symsFile, pc, lineNo, calls, syms, findVars>>

\* the loop ends and main returns
MainExit ==
    /\ pc = "search" /\ panic = ""
    /\ ci > Len(calls)
    /\ pc' = "exit"
    /\ UNCHANGED <<args, traceFile, symsFile, lineNo, calls, syms, ci, out, panic, findVars>>

Next ==
    \/ MainStart
    \/ ReadFtrace
    \/ FtraceLine
    \/ FtraceCollect
    \/ ReadKallsyms
    \/ KallsymsLine
    \/ KallsymsCollect
    \/ SearchCall
    \/ MainExit

Spec == Init /\ [][Next]_vars

----------------------------------------------------------------------------
(* find_sym on its own: a table is built by inserts, then looked up once *)

KeyPool == {0, 1, 2, 16, U64Max}

NamePool == {<<"a">>, <<"b">>}

InitFind == Init /\ args = <<>>

\* one more pair reaches the map
TblInsert ==
    /\ needle = -1
    /\ \E k \in KeyPool, n \in NamePool :
          /\ Len(MapInsert(tbl, k, Symbol(n, None))) <= MaxTbl
          /\ tbl' = MapInsert(tbl, k, Symbol(n, None))
    /\ UNCHANGED <<needle, found, mainVars>>

\* find_sym(a, &tbl)
Lookup ==
    /\ needle = -1
    /\ \E a \in 0..U64Max :
          /\ needle' = a
          /\ found' = find_sym(a, tbl)
    /\ UNCHANGED <<tbl, mainVars>>

NextFind == TblInsert \/ Lookup

FindSpec == InitFind /\ [][NextFind]_vars

----------------------------------------------------------------------------
(* Vocabulary of the properties: the documented line grammars, read field  *)
(* by field, and the record lines of the output                            *)

FieldStarts(s) ==
    {i \in 1..Len(s) : IsNonSpace(s[i]) /\ (i = 1 \/ IsSpace(s[i - 1]))}

NumFields(s) == Cardinality(FieldStarts(s))

\* the n-th blank-separated field of a line
Field(s, n) ==
    LET st == FieldStarts(s)
        i == CHOOSE x \in st : Cardinality({y \in st : y < x}) = n - 1
    IN  SubSeq(s, i, RunEnd(s, i, "\\S") - 1)

AllIn(f, chars) == \A i \in DOMAIN f : f[i] \in chars

RECURSIVE PosValue(_, _)
\* the number a string of digits denotes in a radix
PosValue(f, radix) ==
    IF f = <<>> THEN 0
    ELSE PosValue(SubSeq(f, 1, Len(f) - 1), radix) * radix + DigitVal(f[Len(f)])

NoBlankAtEnds(s) == s # <<>> /\ IsNonSpace(s[1]) /\ IsNonSpace(s[Len(s)])

\* <hex-address> <single-letter-type> <name> ["[" <module> "]"], the whole line
GrammarSymLine(s) ==
    /\ NoBlankAtEnds(s)
    /\ NumFields(s) \in {3, 4}
    /\ AllIn(Field(s, 1), HexChars)
    /\ Len(Field(s, 2)) = 1
    /\ Field(s, 2)[1] \in Letters
    /\ NumFields(s) = 4 =>
          LET f == Field(s, 4)
          IN  Len(f) >= 3 /\ f[1] = "[" /\ f[Len(f)] = "]"

GrammarSymAddr(s) == PosValue(Field(s, 1), 16)

GrammarSymbol(s) ==
    Symbol(Field(s, 3),
           IF NumFields(s) = 4
           THEN Some(SubSeq(Field(s, 4), 2, Len(Field(s, 4)) - 1))
           ELSE None)

\* the first three fields are a decimal cpu and two hex addresses that fit
NumericTraceFields(s) ==
    /\ NumFields(s) >= 3
    /\ IsNonSpace(s[1])
    /\ AllIn(Field(s, 1), DigitChars)
    /\ AllIn(Field(s, 2), HexChars)
    /\ AllIn(Field(s, 3), HexChars)
    /\ PosValue(Field(s, 1), 10) <= U32Max
    /\ PosValue(Field(s, 2), 16) <= U64Max
    /\ PosValue(Field(s, 3), 16) <= U64Max

\* <cpu-decimal><ws><to-hex><ws><from-hex>, nothing after the third field
DocumentedTraceLine(s) ==
    /\ NoBlankAtEnds(s)
    /\ NumFields(s) = 3
    /\ NumericTraceFields(s)

DocumentedCall(s) ==
    FnCall(PosValue(Field(s, 1), 10), PosValue(Field(s, 3), 16), PosValue(Field(s, 2), 16))

IsProgressLine(l) ==
    \/ l = ReadingFtrace \o args[2]
    \/ l = ReadingKallsyms \o args[1]

\* the lines of the output that stand for trace records
RecordLines == SelectSeq(out, LAMBDA l : ~IsProgressLine(l))

Keys(m) == {m[i].addr : i \in DOMAIN m}

\* the kallsyms lines the builder has taken so far
SymLinesAccepted ==
    IF pc = "kallsyms" THEN lineNo - 1
    ELSE IF pc \in {"search", "exit"} THEN Len(symsFile.lines)
    ELSE 0

TableBuilt == pc \in {"search", "exit"}

----------------------------------------------------------------------------
(* C1 *)

\* what the claim says find_sym(a, m) = r must satisfy
FloorOf(a, m, r) ==
    LET below == {k \in Keys(m) : k <= a}
    IN  IF below = {} THEN r = None
        ELSE /\ r.tag = "Some"
             /\ r.val.addr \in below
             /\ \A k \in below : k <= r.val.addr
             /\ ~\E k \in Keys(m) : r.val.addr < k /\ k <= a
             /\ r.val.offset = a - r.val.addr
             /\ r.val.offset >= 0
             /\ \E i \in DOMAIN m : m[i].addr = r.val.addr /\ m[i].sym = r.val.sym

\* C1: find_sym(a, T) returns the entry of T with the greatest key k <= a and
\* the offset a - k (0 at a symbol's address, never negative, no key in
\* (k, a]); it returns None exactly when T has no key <= a.
C1_FloorLookup == needle # -1 => FloorOf(needle, tbl, found)

\* a lookup strictly between two keys of a table, answered with the lower one
C1_Witness ==
    /\ needle # -1
    /\ Len(tbl) >= 2
    /\ found.tag = "Some"
    /\ found.val.addr = tbl[1].addr
    /\ found.val.offset > 0
    /\ needle < tbl[2].addr

----------------------------------------------------------------------------
(* C2 *)

\* C2: every emitted record line is <cpu> <to> <- <from> where each of the two
\* endpoints, "to" as well as "from", carries +0x<offset> exactly when its
\* offset is greater than 0.
C2_BothEndpointsCarryOffset ==
    TableBuilt =>
        \A i \in 1..Len(RecordLines) :
            RecordLines[i] =
                FmtDec(calls[i].cpu) \o <<" ">>
                    \o SymOffsetFmt(find_sym(calls[i].to, syms).val)
                    \o <<" ", "<", "-", " ">>
                    \o SymOffsetFmt(find_sym(calls[i].from, syms).val)

----------------------------------------------------------------------------
(* C3 *)

Resolves(a) == \E k \in Keys(syms) : k <= a

UnresolvedCalls ==
    {i \in DOMAIN calls : ~Resolves(calls[i].to) \/ ~Resolves(calls[i].from)}

FirstUnresolved == CHOOSE i \in UnresolvedCalls : \A j \in UnresolvedCalls : i <= j

\* C3: when record i is the first trace record with an endpoint that has no
\* symbol at or below it, the loop never gets past record i and never
\* returns, the run panics on record i, and the output holds only the lines
\* of the records before i: none for record i or a later one, no placeholder.
C3_AbortAtFirstUnresolved ==
    (TableBuilt /\ UnresolvedCalls # {}) =>
        /\ pc = "search"
        /\ ci <= FirstUnresolved
        /\ Len(RecordLines) = ci - 1
        /\ panic \in {"", MsgUnwrapNone}
        /\ panic = MsgUnwrapNone => ci = FirstUnresolved
        /\ \A j \in 1..Len(RecordLines) :
              Resolves(calls[j].to) /\ Resolves(calls[j].from)

\* the run aborted on its second record, after printing the first
C3_Witness ==
    /\ pc = "search"
    /\ panic = MsgUnwrapNone
    /\ ci = 2
    /\ Len(RecordLines) = 1

----------------------------------------------------------------------------
(* C4 *)

\* C4: once every trace line has parsed, there are as many calls as trace
\* lines; the i-th record line printed is the symbolisation of the i-th trace
\* line; and when the loop has ended there is one record line per trace line.
C4_OutputMirrorsTrace ==
    TableBuilt =>
        /\ Len(calls) = Len(traceFile.lines)
        /\ Len(RecordLines) <= Len(traceFile.lines)
        /\ pc = "exit" => Len(RecordLines) = Len(traceFile.lines)
        /\ \A i \in 1..Len(RecordLines) :
              Printed(RecordLines[i]) =
                  SearchBody(FtraceClosure(traceFile.lines[i]).val, syms)

\* a whole run over two trace lines that print differently
C4_Witness ==
    /\ pc = "exit"
    /\ Len(traceFile.lines) = 2
    /\ Len(RecordLines) = 2
    /\ RecordLines[1] # RecordLines[2]

----------------------------------------------------------------------------
(* C5 *)

\* C5: ftrace() accepts every line of the documented form with nothing after
\* the third field, and the record it yields holds the three fields.
C5_DocumentedLineAccepted ==
    /\ (pc = "ftrace" /\ panic # "") =>
          ~DocumentedTraceLine(traceFile.lines[lineNo])
    /\ \A i \in 1..Len(calls) :
          DocumentedTraceLine(traceFile.lines[i]) =>
              calls[i] = DocumentedCall(traceFile.lines[i])

----------------------------------------------------------------------------
(* C6 *)

\* C6: every kallsyms line the builder has taken (it got past the line, with
\* an entry inserted for it) matches the documented grammar as a whole.
C6_OnlyGrammarLinesAccepted ==
    \A i \in 1..SymLinesAccepted : GrammarSymLine(symsFile.lines[i])

----------------------------------------------------------------------------
(* C7 *)

\* C7: every call record comes from a line whose cpu field is all decimal
\* digits and whose address fields are all hex digits, each fitting its
\* type, and holds the values of these fields.
C7_OnlyNumericFieldsAccepted ==
    \A i \in 1..Len(calls) :
        /\ NumericTraceFields(traceFile.lines[i])
        /\ calls[i] = DocumentedCall(traceFile.lines[i])

----------------------------------------------------------------------------
(* C8 *)

\* C8: after the table is built from well-formed lines it has exactly one
\* entry per distinct address of the input, and for each address find_sym
\* returns, with offset 0, the symbol of the last line that has the address.
C8_LastWriteWins ==
    (TableBuilt /\ \A i \in DOMAIN symsFile.lines : GrammarSymLine(symsFile.lines[i])) =>
        LET L == symsFile.lines
            addrs == {GrammarSymAddr(L[i]) : i \in DOMAIN L}
        IN  /\ Keys(syms) = addrs
            /\ Len(syms) = Cardinality(addrs)
            /\ \A i \in DOMAIN L :
                  (\A j \in DOMAIN L : j > i => GrammarSymAddr(L[j]) # GrammarSymAddr(L[i]))
                      => find_sym(GrammarSymAddr(L[i]), syms)
                            = Some(SymOffset(GrammarSymAddr(L[i]), 0, GrammarSymbol(L[i])))

\* two well-formed lines gave one address two names, and a record that
\* calls this address has been resolved and printed
C8_Witness ==
    /\ pc = "exit"
    /\ Len(symsFile.lines) = 2
    /\ GrammarSymLine(symsFile.lines[1])
    /\ GrammarSymLine(symsFile.lines[2])
    /\ GrammarSymAddr(symsFile.lines[1]) = GrammarSymAddr(symsFile.lines[2])
    /\ GrammarSymbol(symsFile.lines[1]) # GrammarSymbol(symsFile.lines[2])
    /\ \E i \in 1..Len(RecordLines) : calls[i].to = GrammarSymAddr(symsFile.lines[2])

----------------------------------------------------------------------------
(* C9 *)

\* C9: when the kallsyms file holds a malformed line and the run has
\* aborted, nothing at all has been written to standard output.
C9_NoOutputBeforeSymbolAbort ==
    (/\ symsFile.state = "open"
     /\ \E i \in DOMAIN symsFile.lines : ~GrammarSymLine(symsFile.lines[i])
     /\ panic # "") => out = <<>>

----------------------------------------------------------------------------
(* C10 *)

\* C10: no trace line is read or parsed (into a call, or into the error that
\* aborts the run) before the symbol table has been completely built.
C10_TableBuiltBeforeTrace ==
    (calls # <<>> \/ (pc = "ftrace" /\ panic # "")) =>
        (symsFile.state = "open" /\ SymLinesAccepted = Len(symsFile.lines))

====
